---- MODULE Spec2Model ----
(***************************************************************************)
(* Model of scripts/create_icon.py: the command-line entry point and       *)
(* create_panning_gif, which slides an 8x8 window over an 8-pixel-tall     *)
(* image, attaches a display duration to every frame, repeats the pass,    *)
(* saves an animated GIF and writes a base64 data-URI sidecar.             *)
(*                                                                         *)
(* The image library (PIL) and the file system are the environment: the    *)
(* decoded image size is an input, the bytes the GIF encoder produces are  *)
(* an input, and library I/O is taken to succeed (the script has no        *)
(* exception handling of its own).                                         *)
(***************************************************************************)
EXTENDS Integers, Sequences, FiniteSets, TLC

\* ------------------------------------------------------------------ bounds
MaxWidth == 11
MaxHeight == 9
MaxArgv == 4
MaxPayload == 2

\* ------------------------------------------------------- program constants
DefaultFrameDuration == 50
DefaultHoldStart == 500
DefaultHoldEnd == 500
RequiredHeight == 8
MinWidth == 8

\* ---------------------------------------------------------- input domains
Widths == 1..MaxWidth
Heights == 1..MaxHeight
FrameDurationVals == {50, 500}
HoldStartVals == {500, 200}
HoldEndVals == {500, 300}
SampleBytes == {0, 71, 255}

\* sys.argv of an invocation "create_icon.py input.png output.gif extra ..."
ArgvWord(k) ==
    IF k = 1 THEN "create_icon.py"
    ELSE IF k = 2 THEN "input.png"
    ELSE IF k = 3 THEN "output.gif"
    ELSE "extra"

Argvs == { [k \in 1..n |-> ArgvWord(k)] : n \in 1..MaxArgv }

RECURSIVE SeqsUpTo(_, _)
SeqsUpTo(S, n) ==
    IF n = 0 THEN { <<>> }
    ELSE LET shorter == SeqsUpTo(S, n - 1)
         IN  shorter \cup { Append(s, b) : s \in shorter, b \in S }

\* Byte streams the GIF encoder may produce: "GIF89a", a body, the trailer.
GifSignature == <<71, 73, 70, 56, 57, 97>>
GifTrailer == 59
EncoderOutputs ==
    { GifSignature \o body \o <<GifTrailer>> : body \in SeqsUpTo(SampleBytes, MaxPayload) }

\* ------------------------------------------------------------ file system
NoFile == [exists |-> FALSE, data |-> <<>>]
File(d) == [exists |-> TRUE, data |-> d]
OldGif == File(<<71, 73, 70>>)
OldTxt == File(<<"o", "l", "d">>)

\* output_path + ".txt"  (line 98)
SidecarPath(output_path) == output_path \o ".txt"

Paths == { "output.gif", SidecarPath("output.gif") }

\* ------------------------------------------------------------------ base64
B64Alphabet ==
    << "A","B","C","D","E","F","G","H","I","J","K","L","M","N","O","P",
       "Q","R","S","T","U","V","W","X","Y","Z","a","b","c","d","e","f",
       "g","h","i","j","k","l","m","n","o","p","q","r","s","t","u","v",
       "w","x","y","z","0","1","2","3","4","5","6","7","8","9","+","/" >>

B64Char(v) == B64Alphabet[v + 1]

\* variant of the encoder that drops a trailing partial group
RECURSIVE B64EncodeWholeGroups(_)
B64EncodeWholeGroups(bytes) ==
    IF Len(bytes) < 3 THEN <<>>
    ELSE
        << B64Char(bytes[1] \div 4),
           B64Char((bytes[1] % 4) * 16 + bytes[2] \div 16),
           B64Char((bytes[2] % 16) * 4 + bytes[3] \div 64),
           B64Char(bytes[3] % 64) >>
        \o B64EncodeWholeGroups(SubSeq(bytes, 4, Len(bytes)))

RECURSIVE B64Encode(_)
B64Encode(bytes) ==
    IF Len(bytes) = 0 THEN <<>>
    ELSE IF Len(bytes) = 1 THEN
        << B64Char(bytes[1] \div 4),
           B64Char((bytes[1] % 4) * 16),
           "=", "=" >>
    ELSE IF Len(bytes) = 2 THEN
        << B64Char(bytes[1] \div 4),
           B64Char((bytes[1] % 4) * 16 + bytes[2] \div 16),
           B64Char((bytes[2] % 16) * 4),
           "=" >>
    ELSE
        << B64Char(bytes[1] \div 4),
           B64Char((bytes[1] % 4) * 16 + bytes[2] \div 16),
           B64Char((bytes[2] % 16) * 4 + bytes[3] \div 64),
           B64Char(bytes[3] % 64) >>
        \o B64Encode(SubSeq(bytes, 4, Len(bytes)))

\* "data:image/gif;base64,"  (line 99)
DataUriPrefix ==
    << "d","a","t","a",":","i","m","a","g","e","/","g","i","f",";",
       "b","a","s","e","6","4","," >>

DataUri(b64) == DataUriPrefix \o b64

\* ------------------------------------------------------------------- state
VARIABLES
    name,                   \* __name__ of the module (line 101)
    argv,                   \* sys.argv
    img_size,               \* size of the image stored at the input path
    pc,                     \* position in the script
    call,                   \* arguments of the create_panning_gif call
    width, height,          \* img.size (line 32)
    i,                      \* enumerate() counter of the pan loop (line 47)
    single_pass_frames,     \* line 43
    single_pass_durations,  \* line 44
    frames, durations,      \* lines 72-73
    save_call,              \* what frames[0].save receives (lines 79-85)
    b64,                    \* line 92
    fs,                     \* the files at output_path and output_path.txt
    writes,                 \* paths written by this run, in order
    stdout,                 \* diagnostics printed, in order
    exit_code               \* process exit status, -1 while running

vars == << name, argv, img_size, pc, call, width, height, i,
           single_pass_frames, single_pass_durations, frames, durations,
           save_call, b64, fs, writes, stdout, exit_code >>

NoCall ==
    [called |-> FALSE, input_path |-> "", output_path |-> "",
     frame_duration |-> 0, hold_start |-> 0, hold_end |-> 0]

NoFrame == [box |-> <<0, 0, 0, 0>>, mode |-> ""]

NoSave ==
    [saved |-> FALSE, path |-> "", first |-> NoFrame, append_images |-> <<>>,
     duration |-> <<>>, loop |-> -1]

Init ==
    /\ name \in {"__main__", "create_icon"}
    /\ argv \in Argvs
    /\ img_size \in Widths \X Heights
    /\ pc = "start"
    /\ call = NoCall
    /\ width = 0
    /\ height = 0
    /\ i = 0
    /\ single_pass_frames = <<>>
    /\ single_pass_durations = <<>>
    /\ frames = <<>>
    /\ durations = <<>>
    /\ save_call = NoSave
    /\ b64 = <<>>
    /\ fs \in { [p \in Paths |-> IF p = "output.gif" THEN g ELSE t] :
                    g \in {NoFile, OldGif}, t \in {NoFile, OldTxt} }
    /\ writes = <<>>
    /\ stdout = <<>>
    /\ exit_code = -1

\* ----------------------------------------------------- pure parts of the code
\* variants of the pan range: starting at 1, and one position short
PanRangeFromOne(w) == [k \in 1..(w - 7) |-> k]
PanRangeShort(w) == [k \in 1..(w - 8) |-> k - 1]

\* range(width - 7)  (line 47)
PanRange(w) == [k \in 1..(w - 7) |-> k - 1]

\* img.crop((x, 0, x + 8, 8))  (line 49)
CropBox(x) == <<x, 0, x + 8, 8>>

\* crop, flatten onto black, convert to palette mode  (lines 49-54)
MakeFrame(x) == [box |-> CropBox(x), mode |-> "P"]

\* variants of the duration rule: holds swapped, last-frame rule tested
\* first, and an interior branch that appends nothing
AppendDurationSwapped(durs, idx, x, w, frame_duration, hold_start, hold_end) ==
    IF idx = 0 THEN Append(durs, hold_end)
    ELSE IF x = w - 8 THEN Append(durs, hold_start)
    ELSE Append(durs, frame_duration)

AppendDurationLastFirst(durs, idx, x, w, frame_duration, hold_start, hold_end) ==
    IF x = w - 8 THEN Append(durs, hold_end)
    ELSE IF idx = 0 THEN Append(durs, hold_start)
    ELSE Append(durs, frame_duration)

AppendDurationHoldsOnly(durs, idx, x, w, frame_duration, hold_start, hold_end) ==
    IF idx = 0 THEN Append(durs, hold_start)
    ELSE IF x = w - 8 THEN Append(durs, hold_end)
    ELSE durs

\* the if / elif / else that appends one duration  (lines 59-64)
AppendDuration(durs, idx, x, w, frame_duration, hold_start, hold_end) ==
    IF idx = 0 THEN Append(durs, hold_start)
    ELSE IF x = w - 8 THEN Append(durs, hold_end)
    ELSE Append(durs, frame_duration)

\* repeat_count = 3  (line 71)
RepeatCount == 3

\* variant of list * n that yields one copy too few
RECURSIVE RepeatOneShort(_, _)
RepeatOneShort(seq, n) == IF n <= 1 THEN <<>> ELSE seq \o RepeatOneShort(seq, n - 1)

\* list * n  (lines 72-73)
RECURSIVE Repeat(_, _)
Repeat(seq, n) == IF n <= 0 THEN <<>> ELSE seq \o Repeat(seq, n - 1)

\* loop=0  (line 84)
LoopForever == 0

\* variant of the height test that lets short images through
HeightTooTall(h) == h > RequiredHeight

\* height != 8  (line 34)
HeightRejected(h) == h # RequiredHeight

\* width < 8  (line 38)
WidthRejected(w) == w < MinWidth

\* len(sys.argv) < 3  (line 102)
TooFewArgs(av) == Len(av) < 3

\* ------------------------------------------------------------------ actions
\* __main__ block  (lines 101-108)
Main ==
    /\ pc = "start"
    /\ name = "__main__"
    /\ IF TooFewArgs(argv)
       THEN /\ stdout' = Append(stdout, "usage")
            /\ exit_code' = 1
            /\ pc' = "exit"
            /\ call' = call
       ELSE /\ call' = [called |-> TRUE,
                        input_path |-> argv[2], output_path |-> argv[3],
                        frame_duration |-> DefaultFrameDuration,
                        hold_start |-> DefaultHoldStart,
                        hold_end |-> DefaultHoldEnd]
            /\ pc' = "load"
            /\ UNCHANGED << stdout, exit_code >>
    /\ UNCHANGED << name, argv, img_size, width, height, i,
                    single_pass_frames, single_pass_durations, frames,
                    durations, save_call, b64, fs, writes >>

\* create_panning_gif called by an importing program  (lines 12-18)
Call ==
    /\ pc = "start"
    /\ name # "__main__"
    /\ \E fd \in FrameDurationVals, hs \in HoldStartVals, he \in HoldEndVals :
          call' = [called |-> TRUE,
                   input_path |-> "input.png", output_path |-> "output.gif",
                   frame_duration |-> fd, hold_start |-> hs, hold_end |-> he]
    /\ pc' = "load"
    /\ UNCHANGED << name, argv, img_size, width, height, i,
                    single_pass_frames, single_pass_durations, frames,
                    durations, save_call, b64, fs, writes, stdout, exit_code >>

\* Image.open(...).convert("RGBA"); width, height = img.size  (lines 30-32)
LoadImage ==
    /\ pc = "load"
    /\ width' = img_size[1]
    /\ height' = img_size[2]
    /\ pc' = "check_height"
    /\ UNCHANGED << name, argv, img_size, call, i,
                    single_pass_frames, single_pass_durations, frames,
                    durations, save_call, b64, fs, writes, stdout, exit_code >>

\* lines 34-36
CheckHeight ==
    /\ pc = "check_height"
    /\ IF HeightRejected(height)
       THEN /\ stdout' = Append(stdout, "error_height")
            /\ exit_code' = 1
            /\ pc' = "exit"
       ELSE /\ pc' = "check_width"
            /\ UNCHANGED << stdout, exit_code >>
    /\ UNCHANGED << name, argv, img_size, call, width, height, i,
                    single_pass_frames, single_pass_durations, frames,
                    durations, save_call, b64, fs, writes >>

\* lines 38-44
CheckWidth ==
    /\ pc = "check_width"
    /\ IF WidthRejected(width)
       THEN /\ stdout' = Append(stdout, "error_width")
            /\ exit_code' = 1
            /\ pc' = "exit"
            /\ UNCHANGED << single_pass_frames, single_pass_durations, i >>
       ELSE /\ single_pass_frames' = <<>>
            /\ single_pass_durations' = <<>>
            /\ i' = 0
            /\ pc' = "pan"
            /\ UNCHANGED << stdout, exit_code >>
    /\ UNCHANGED << name, argv, img_size, call, width, height, frames,
                    durations, save_call, b64, fs, writes >>

\* one iteration of the pan loop  (lines 47-64)
PanStep ==
    /\ pc = "pan"
    /\ i < Len(PanRange(width))
    /\ LET x == PanRange(width)[i + 1]
       IN  /\ single_pass_frames' = Append(single_pass_frames, MakeFrame(x))
           /\ single_pass_durations' =
                 AppendDuration(single_pass_durations, i, x, width,
                                call.frame_duration, call.hold_start,
                                call.hold_end)
    /\ i' = i + 1
    /\ UNCHANGED << name, argv, img_size, pc, call, width, height, frames,
                    durations, save_call, b64, fs, writes, stdout, exit_code >>

\* loop exhausted; if not single_pass_frames  (lines 66-68)
CheckEmpty ==
    /\ pc = "pan"
    /\ i >= Len(PanRange(width))
    /\ IF Len(single_pass_frames) = 0
       THEN /\ stdout' = Append(stdout, "error_no_frames")
            /\ exit_code' = 1
            /\ pc' = "exit"
       ELSE /\ pc' = "repeat"
            /\ UNCHANGED << stdout, exit_code >>
    /\ UNCHANGED << name, argv, img_size, call, width, height, i,
                    single_pass_frames, single_pass_durations, frames,
                    durations, save_call, b64, fs, writes >>

\* lines 70-76
RepeatPass ==
    /\ pc = "repeat"
    /\ frames' = Repeat(single_pass_frames, RepeatCount)
    /\ durations' = Repeat(single_pass_durations, RepeatCount)
    /\ stdout' = stdout \o <<"created", "timing">>
    /\ pc' = "save"
    /\ UNCHANGED << name, argv, img_size, call, width, height, i,
                    single_pass_frames, single_pass_durations,
                    save_call, b64, fs, writes, exit_code >>

\* variant of the save step that writes the sidecar from the encoder's
\* bytes and leaves the GIF itself unwritten
SaveSidecarFirst ==
    /\ pc = "save"
    /\ save_call' = [saved |-> TRUE, path |-> call.output_path,
                     first |-> frames[1], append_images |-> Tail(frames),
                     duration |-> durations, loop |-> LoopForever]
    /\ \E bytes \in EncoderOutputs :
          fs' = [fs EXCEPT ![SidecarPath(call.output_path)] =
                               File(DataUri(B64Encode(bytes)))]
    /\ writes' = Append(writes, SidecarPath(call.output_path))
    /\ stdout' = Append(stdout, "saved")
    /\ pc' = "read_back"
    /\ UNCHANGED << name, argv, img_size, call, width, height, i,
                    single_pass_frames, single_pass_durations, frames,
                    durations, b64, exit_code >>

\* frames[0].save(...)  (lines 79-87)
SaveGif ==
    /\ pc = "save"
    /\ save_call' = [saved |-> TRUE, path |-> call.output_path,
                     first |-> frames[1], append_images |-> Tail(frames),
                     duration |-> durations, loop |-> LoopForever]
    /\ \E bytes \in EncoderOutputs :
          fs' = [fs EXCEPT ![call.output_path] = File(bytes)]
    /\ writes' = Append(writes, call.output_path)
    /\ stdout' = Append(stdout, "saved")
    /\ pc' = "read_back"
    /\ UNCHANGED << name, argv, img_size, call, width, height, i,
                    single_pass_frames, single_pass_durations, frames,
                    durations, b64, exit_code >>

\* open(output_path, "rb"); b64encode(f.read()).decode()  (lines 90-92)
ReadBack ==
    /\ pc = "read_back"
    /\ b64' = B64Encode(fs[call.output_path].data)
    /\ pc' = "write_txt"
    /\ UNCHANGED << name, argv, img_size, call, width, height, i,
                    single_pass_frames, single_pass_durations, frames,
                    durations, save_call, fs, writes, stdout, exit_code >>

\* lines 94-99, then the script ends
WriteTxt ==
    /\ pc = "write_txt"
    /\ stdout' = stdout \o <<"base64_preview", "base64_saved">>
    /\ fs' = [fs EXCEPT ![SidecarPath(call.output_path)] = File(DataUri(b64))]
    /\ writes' = Append(writes, SidecarPath(call.output_path))
    /\ exit_code' = 0
    /\ pc' = "done"
    /\ UNCHANGED << name, argv, img_size, call, width, height, i,
                    single_pass_frames, single_pass_durations, frames,
                    durations, save_call, b64 >>

Next ==
    \/ Main
    \/ Call
    \/ LoadImage
    \/ CheckHeight
    \/ CheckWidth
    \/ PanStep
    \/ CheckEmpty
    \/ RepeatPass
    \/ SaveGif
    \/ ReadBack
    \/ WriteTxt

Spec == Init /\ [][Next]_vars

\* a sequential script keeps executing until it exits
FairSpec == Spec /\ WF_vars(Next)

\* ------------------------------------------------------------ observations
Contains(seq, v) == \E k \in DOMAIN seq : seq[k] = v

GifPath == "output.gif"
TxtPath == "output.gif.txt"

\* positions reached only after the pan loop and the empty check
AfterPan == {"repeat", "save", "read_back", "write_txt", "done"}

ImgWidth == img_size[1]
ImgHeight == img_size[2]
ValidImage == ImgHeight = 8 /\ ImgWidth >= 8

\* the frame list the encoder receives: frames[0] followed by append_images
Encoded == <<save_call.first>> \o save_call.append_images

\* an independent base64 decoder (RFC 4648), used to check the round trip
B64Value(c) == CHOOSE v \in 0..63 : B64Alphabet[v + 1] = c

RECURSIVE B64Decode(_)
B64Decode(text) ==
    IF Len(text) < 4 THEN <<>>
    ELSE LET v1 == B64Value(text[1])
             v2 == B64Value(text[2])
             rest == B64Decode(SubSeq(text, 5, Len(text)))
         IN  IF text[3] = "=" THEN
                 << v1 * 4 + v2 \div 16 >> \o rest
             ELSE IF text[4] = "=" THEN
                 << v1 * 4 + v2 \div 16,
                    (v2 % 16) * 16 + B64Value(text[3]) \div 4 >> \o rest
             ELSE
                 << v1 * 4 + v2 \div 16,
                    (v2 % 16) * 16 + B64Value(text[3]) \div 4,
                    (B64Value(text[3]) % 4) * 64 + B64Value(text[4]) >> \o rest

\* ------------------------------------------------------------------ claims
\* C1: for an image of height 8 and width w >= 8 the pan produces exactly
\* w-7 frames, and the frame at index i is the 8-wide window cropped at
\* offset x = i: offsets 0, 1, ..., w-8 in order, none skipped or repeated.
C1_FrameCountAndOffsets ==
    /\ \A k \in DOMAIN single_pass_frames :
          single_pass_frames[k].box = <<k - 1, 0, k + 7, 8>>
    /\ pc = "pan" => Len(single_pass_frames) = i /\ i <= ImgWidth - 7
    /\ pc \in AfterPan => Len(single_pass_frames) = ImgWidth - 7

C1_Witness ==
    /\ pc = "done"
    /\ ImgWidth = 10
    /\ Len(single_pass_frames) = 3
    /\ single_pass_frames[3].box = <<2, 0, 10, 8>>

\* C2 as stated: the duration at index 0 is hold_start, the duration at the
\* last index (offset w-8) is hold_end, and every duration strictly between
\* them is frame_duration, for every width w >= 8.
C2_AsStated ==
    pc \in AfterPan =>
        /\ single_pass_durations[1] = call.hold_start
        /\ single_pass_durations[ImgWidth - 7] = call.hold_end
        /\ \A k \in 2..(ImgWidth - 8) :
              single_pass_durations[k] = call.frame_duration

\* C2 amended: the duration at index 0 is hold_start; when w > 8 the
\* duration at the last index (offset w-8) is hold_end; every duration
\* strictly between them is frame_duration.
C2_Durations ==
    pc \in AfterPan =>
        /\ Len(single_pass_durations) = ImgWidth - 7
        /\ single_pass_durations[1] = call.hold_start
        /\ ImgWidth > 8 => single_pass_durations[ImgWidth - 7] = call.hold_end
        /\ \A k \in 2..(ImgWidth - 8) :
              single_pass_durations[k] = call.frame_duration

C2_Witness ==
    /\ pc = "done"
    /\ ImgWidth = 11
    /\ call.hold_start = 200
    /\ call.hold_end = 300
    /\ call.frame_duration = 50
    /\ single_pass_durations = <<200, 50, 50, 300>>

\* C3: an 8x8 image yields exactly one frame whose duration is hold_start,
\* not hold_end, even when the two differ.
C3_MinimumWidth ==
    (pc \in AfterPan /\ ImgWidth = 8) =>
        /\ Len(single_pass_frames) = 1
        /\ single_pass_durations = <<call.hold_start>>

C3_Witness ==
    /\ pc = "done"
    /\ ImgWidth = 8
    /\ call.hold_start = 500
    /\ call.hold_end = 300
    /\ single_pass_durations = <<500>>

\* C4: the encoder receives exactly 3*(w-7) frames; final index k carries the
\* single-pass frame and duration at index k mod (w-7), i.e. the single pass
\* three times in order; and the container is saved with loop=0.
C4_RepeatedSequence ==
    save_call.saved =>
        /\ Len(Encoded) = 3 * (ImgWidth - 7)
        /\ Len(save_call.duration) = 3 * (ImgWidth - 7)
        /\ \A k \in 0..(3 * (ImgWidth - 7) - 1) :
              /\ Encoded[k + 1] = single_pass_frames[(k % (ImgWidth - 7)) + 1]
              /\ save_call.duration[k + 1] =
                    single_pass_durations[(k % (ImgWidth - 7)) + 1]
        /\ save_call.duration =
              single_pass_durations \o single_pass_durations \o single_pass_durations
        /\ save_call.loop = 0

C4_Witness ==
    /\ save_call.saved
    /\ ImgWidth = 9
    /\ call.hold_start = 200
    /\ save_call.duration = <<200, 300, 200, 300, 200, 300>>
    /\ Len(Encoded) = 6

\* C5: when the decoded image has height != 8, or height 8 and width < 8,
\* create_panning_gif ends the process with exit status 1 after printing a
\* dimension diagnostic and neither output file is created or modified; with
\* valid dimensions the run ends with no validation error and both files exist.
C5_StateOk ==
    call.called =>
        IF ValidImage
        THEN /\ pc # "exit"
             /\ exit_code \in {-1, 0}
             /\ ~ Contains(stdout, "error_height")
             /\ ~ Contains(stdout, "error_width")
             /\ pc = "done" =>
                   /\ exit_code = 0
                   /\ fs[GifPath].exists
                   /\ fs[TxtPath].exists
                   /\ writes = <<GifPath, TxtPath>>
        ELSE /\ pc \in {"load", "check_height", "check_width", "exit"}
             /\ writes = <<>>
             /\ pc = "exit" =>
                   /\ exit_code = 1
                   /\ stdout = IF ImgHeight # 8 THEN <<"error_height">>
                                                ELSE <<"error_width">>
             /\ pc # "exit" => exit_code = -1 /\ stdout = <<>>

C5_ValidationOutcome ==
    /\ [] C5_StateOk
    /\ [][writes' = <<>> => fs' = fs]_vars
    /\ (call.called /\ ~ ValidImage) ~> (pc = "exit")
    /\ (call.called /\ ValidImage) ~> (pc = "done")

C5_Witness ==
    /\ pc = "exit"
    /\ call.called
    /\ ImgHeight = 8
    /\ ImgWidth = 7
    /\ exit_code = 1
    /\ fs[GifPath] = OldGif
    /\ fs[TxtPath] = NoFile

\* C6: after a successful run the sidecar holds exactly the prefix
\* "data:image/gif;base64," followed by the base64 text of the GIF's bytes:
\* stripping the prefix and decoding the rest gives back those bytes.
C6_SidecarRoundTrip ==
    pc = "done" =>
        LET text == fs[TxtPath].data
            raw == fs[GifPath].data
            body == SubSeq(text, 23, Len(text))
        IN  /\ fs[TxtPath].exists
            /\ Len(text) = 22 + 4 * ((Len(raw) + 2) \div 3)
            /\ SubSeq(text, 1, 22) =
                  << "d","a","t","a",":","i","m","a","g","e","/","g","i","f",
                     ";","b","a","s","e","6","4","," >>
            /\ \A k \in DOMAIN body :
                  \/ \E v \in 0..63 : B64Alphabet[v + 1] = body[k]
                  \/ body[k] = "=" /\ k > Len(body) - 2
            /\ B64Decode(body) = raw

C6_Witness ==
    /\ pc = "done"
    /\ fs[GifPath].data = <<71, 73, 70, 56, 57, 97, 255, 59>>
    /\ Len(fs[TxtPath].data) = 22 + 12
    /\ fs[TxtPath].data[34] = "="

\* C7: the entry point calls create_panning_gif only for an invocation with
\* exactly two positional arguments, passing them with the default timing
\* (50, 500, 500); with fewer than two it prints usage and exits with status 1
\* without calling it.
C7_ExactlyTwoArguments ==
    name = "__main__" =>
        /\ call.called =>
              /\ Len(argv) - 1 = 2
              /\ call.input_path = argv[2]
              /\ call.output_path = argv[3]
              /\ call.frame_duration = 50
              /\ call.hold_start = 500
              /\ call.hold_end = 500
        /\ Len(argv) - 1 < 2 =>
              /\ ~ call.called
              /\ pc # "start" =>
                    pc = "exit" /\ exit_code = 1 /\ stdout = <<"usage">>

\* C8: the frame list and the duration list have equal length after every
\* loop iteration, after the repeat step and at the point of encoding.
C8_EqualLengths ==
    /\ Len(single_pass_frames) = Len(single_pass_durations)
    /\ Len(frames) = Len(durations)
    /\ save_call.saved => Len(Encoded) = Len(save_call.duration)

C8_Witness ==
    /\ pc = "pan"
    /\ i = 3
    /\ ImgWidth = 11
    /\ Len(single_pass_frames) = 3
    /\ Len(single_pass_durations) = 3

\* C9: nothing is written before dimension validation and the whole frame and
\* duration sequence (with the empty check) are complete, and the GIF is
\* written before the sidecar: the sidecar of this run never exists without
\* the GIF of this run.
C9_WriteOrder ==
    /\ writes \in { <<>>, <<GifPath>>, <<GifPath, TxtPath>> }
    /\ writes # <<>> =>
          /\ pc \in {"read_back", "write_txt", "done"}
          /\ height = 8
          /\ width >= 8
          /\ Len(single_pass_frames) > 0
          /\ Len(frames) = 3 * Len(single_pass_frames)
          /\ Len(durations) = Len(frames)
          /\ fs[GifPath].exists
    /\ Contains(writes, TxtPath) => Contains(writes, GifPath)

C9_Witness ==
    /\ pc = "write_txt"
    /\ writes = <<GifPath>>
    /\ fs[GifPath].exists
    /\ ~ fs[TxtPath].exists

\* C10: the "No frames generated" failure never happens: whenever the empty
\* check is evaluated the single-pass frame list is non-empty, so the only
\* validation failures are the two dimension errors.
C10_EmptyCheckUnreachable ==
    /\ ~ Contains(stdout, "error_no_frames")
    /\ (pc = "pan" /\ i >= ImgWidth - 7) => Len(single_pass_frames) > 0
    /\ (pc = "exit" /\ call.called) =>
          stdout \in { <<"error_height">>, <<"error_width">> }

C10_Witness ==
    /\ pc = "repeat"
    /\ ImgWidth = 8
    /\ Len(single_pass_frames) = 1
    /\ exit_code = -1

====
